---- MODULE Spec2Model ----
(***************************************************************************)
(* Model of the kvstore node core: the Version order, the MemStore, the    *)
(* write-ahead log as the Engine sees it, and the Engine's write paths     *)
(* (Put, Delete, ApplyReplica, Import) with their steps interleaved, plus  *)
(* NewEngine's WAL replay.                                                 *)
(*                                                                         *)
(* Strings that the code only compares for equality (keys, values) are     *)
(* TLA+ strings.  NodeIDs are compared with Go's < and > on strings, which *)
(* is bytewise lexicographic, so a NodeID is a sequence of byte values.    *)
(***************************************************************************)
EXTENDS Integers, Sequences, FiniteSets, TLC

\* ---------------------------------------------------------------- bounds
MaxSeq == 2          \* local writes (Put/Delete calls) over the whole run
MaxWal == 2          \* operations the log may hold
MaxRemoteSeq == 1    \* highest Seq a remote node has issued
MaxRestarts == 1     \* NewEngine runs over the same log
MaxIdLen == 2        \* longest NodeID in the Version-order check
MaxVSeq == 2         \* highest Seq in the Version-order check
MaxHash == 1         \* hash values run over 0..MaxHash
MaxWeight == 2       \* largest weight passed to AddNode
MaxEntries == 3      \* virtual positions the ring may hold
MaxN == 3            \* largest replica count asked for
MaxRF == 3           \* largest configured ReplicationFactor
MaxSelEntries == 3   \* virtual positions of a ring that is only read

Procs == {1, 2}                       \* concurrent callers of one Engine
Keys == {"k1", "k2"}
Values == {"v1"}                    \* values local callers write
Nil == "nil"                          \* Go's nil []byte
NoProc == 0

\* --------------------------------------------------------------- strings
\* Go string comparison: bytewise, a proper prefix is smaller.
RECURSIVE StringLess(_, _)
StringLess(s, t) ==
    IF t = <<>> THEN FALSE
    ELSE IF s = <<>> THEN TRUE
    ELSE IF Head(s) # Head(t) THEN Head(s) < Head(t)
    ELSE StringLess(Tail(s), Tail(t))

StringGreater(s, t) == StringLess(t, s)

\* --------------------------------------------------------------- Version
OpPut == 0
OpDelete == 1
OpUnknown == 2                        \* an OpType value outside the vocabulary

GreaterThanSeqOnly(v, other) == v.Seq > other.Seq

GreaterThanNodeFirst(v, other) ==
    IF v.NodeID # other.NodeID
    THEN StringGreater(v.NodeID, other.NodeID)
    ELSE v.Seq > other.Seq

GreaterThan(v, other) ==
    IF v.Seq # other.Seq
    THEN v.Seq > other.Seq
    ELSE StringGreater(v.NodeID, other.NodeID)

Equal(v, other) == v.Seq = other.Seq /\ v.NodeID = other.NodeID

LessThan(v, other) ==
    IF v.Seq # other.Seq
    THEN v.Seq < other.Seq
    ELSE StringLess(v.NodeID, other.NodeID)

\* Engine.ApplyReplica writes `rec.Version >= op.Version`: the stored
\* Version is equal to or newer than the incoming one.
VersionGE(v, other) == GreaterThan(v, other) \/ Equal(v, other)

\* ---------------------------------------------------------------- Record
ZeroVersion == [NodeID |-> <<>>, Seq |-> 0]
ZeroRecord == [Value |-> Nil, Version |-> ZeroVersion, Tombstone |-> FALSE]

IsDeleted(r) == r.Tombstone

\* -------------------------------------------------------------- MemStore
\* The store is the map `data`: a function whose domain is the keys present.
MemStoreGet(data, key) ==
    IF key \notin DOMAIN data \/ IsDeleted(data[key])
    THEN [rec |-> ZeroRecord, ok |-> FALSE]
    ELSE [rec |-> data[key], ok |-> TRUE]

MapSet(data, key, record) ==
    [k \in (DOMAIN data) \cup {key} |-> IF k = key THEN record ELSE data[k]]

MemStorePutUnconditional(data, key, record) == MapSet(data, key, record)

MemStorePutFirstWins(data, key, record) ==
    IF key \in DOMAIN data THEN data ELSE MapSet(data, key, record)

MemStorePut(data, key, record) ==
    IF key \in DOMAIN data /\ ~GreaterThan(record.Version, data[key].Version)
    THEN data
    ELSE MapSet(data, key, record)

\* ---------------------------------------------------------------- Engine
LocalNode == <<2>>                    \* cfg.NodeID, "b"
RemoteNodes == {<<1>>, <<2, 1>>}      \* "a" < "b" < "ba"

VARIABLES
    cfg,            \* EngineConfig plus whether a Replicator was passed
    store,          \* MemStore.data
    wal,            \* what WAL.Replay would return: the appended operations
    seq,            \* Engine.seq
    mu,             \* holder of Engine.mu's write lock, NoProc when free
    pc,             \* per caller: where it is inside its Engine call
    kind,           \* per caller: the Engine method it is running
    curOp,          \* per caller: the Operation of the call
    replicated,     \* operations handed to Replicator.Replicate, with counts
    applied,        \* history: operations this Engine passed to applyNoWal
    issued,         \* history: Seqs newOp returned, in allocation order
    failed,         \* history: Versions of the Put/Delete calls that returned an error
    delivered,      \* history: operations ApplyReplica/Import returned nil for
    dupDelivered,   \* history: some operation was delivered twice
    lateDelivered,  \* history: some operation arrived after a newer one
    restarts,       \* NewEngine runs so far over this log
    calls,          \* Put/Delete calls so far, over all incarnations
    replayMaxSeq,   \* history: highest local Seq in the log NewEngine replayed
    syncedLen,      \* history: how many log entries a successful Sync has covered
    va, vb, vc,     \* Version-order check: the Versions compared
    cmp,            \* Version-order check: results of the comparisons
    hashOf,         \* hashID on the virtual labels "<id>#<i>"
    entries,        \* ring.entries
    rlast,          \* the last ring or selector call: arguments and result
    scfg,           \* selector.cfg
    lsync,          \* lock view: cfg.SyncWrites
    lcall,          \* lock view: per goroutine, the Engine call it is in
    lpc,            \* lock view: per goroutine, lock operations already done
    emu,            \* lock view: Engine.mu
    smu,            \* lock view: MemStore.mu
    wmu             \* lock view: FileWAL.mu

evars == <<cfg, store, wal, seq, mu, pc, kind, curOp, replicated,
           applied, issued, failed, delivered, dupDelivered, lateDelivered,
           restarts, calls, replayMaxSeq, syncedLen>>
vvars == <<va, vb, vc, cmp>>
rvars == <<hashOf, entries, rlast, scfg>>
lvars == <<lsync, lcall, lpc, emu, smu, wmu>>
vars == <<evars, vvars, rvars, lvars>>

NoOp == [Type |-> OpPut, Key |-> "", Value |-> Nil, Version |-> ZeroVersion]
EmptyMap == [k \in {} |-> ZeroRecord]

Max(S) == CHOOSE x \in S : \A y \in S : y <= x

\* Engine.Get: the value iff a non-tombstoned record exists.
EngineGet(data, key) ==
    LET r == MemStoreGet(data, key)
    IN IF ~r.ok \/ r.rec.Tombstone
       THEN [value |-> Nil, found |-> FALSE]
       ELSE [value |-> r.rec.Value, found |-> TRUE]

\* atomic.AddUint64; MaxSeq keeps the counter far below the uint64 wrap.
AtomicAddUint64Lost(x, delta) == x

AtomicAddUint64(x, delta) == x + delta

newOp(s, type, key, value) ==
    [Type |-> type, Key |-> key, Value |-> value,
     Version |-> [NodeID |-> LocalNode, Seq |-> s]]

applyNoWalRemoves(data, op) ==
    IF op.Type = OpPut
    THEN MemStorePut(data, op.Key,
            [Value |-> op.Value, Version |-> op.Version, Tombstone |-> FALSE])
    ELSE [k \in (DOMAIN data) \ {op.Key} |-> data[k]]

applyNoWal(data, op) ==
    IF op.Type = OpPut
    THEN MemStorePut(data, op.Key,
            [Value |-> op.Value, Version |-> op.Version, Tombstone |-> FALSE])
    ELSE IF op.Type = OpDelete
    THEN MemStorePut(data, op.Key,
            [Value |-> Nil, Version |-> op.Version, Tombstone |-> TRUE])
    ELSE data

\* applyNoWal's default branch: panic("unknown op type").
Panics(op) == op.Type \notin {OpPut, OpDelete}

\* NewEngine's loop over wal.Replay().
RECURSIVE ReplayOps(_, _)
ReplayOps(data, ops) ==
    IF ops = <<>> THEN data
    ELSE ReplayOps(applyNoWal(data, Head(ops)), Tail(ops))

Range(f) == {f[i] : i \in DOMAIN f}

BagAdd(b, x) ==
    [y \in (DOMAIN b) \cup {x} |->
        IF y = x THEN (IF x \in DOMAIN b THEN b[x] + 1 ELSE 1) ELSE b[y]]

\* The operations other nodes have created, each with its own Version (a
\* Version names one write): node "a" deleted k1 and then wrote k2, node "ba"
\* wrote k1 and then deleted k2, and so on alternately.
RemoteOp(n, s) ==
    LET del == ((n = <<1>>) = (s % 2 = 1))
    IN [Type |-> IF del THEN OpDelete ELSE OpPut,
        Key |-> IF s % 2 = 1 THEN "k1" ELSE "k2",
        Value |-> IF del THEN Nil ELSE "v2",
        Version |-> [NodeID |-> n, Seq |-> s]]

RemoteOps == {RemoteOp(n, s) : n \in RemoteNodes, s \in 1..MaxRemoteSeq}

\* The EngineConfig values explored, with HasRepl for `repl != nil`.
Configs ==
    {[SyncWrites |-> TRUE, EnableReplica |-> TRUE, HasRepl |-> TRUE],
     [SyncWrites |-> FALSE, EnableReplica |-> FALSE, HasRepl |-> TRUE],
     [SyncWrites |-> FALSE, EnableReplica |-> TRUE, HasRepl |-> FALSE],
     [SyncWrites |-> TRUE, EnableReplica |-> FALSE, HasRepl |-> FALSE]}

EngineInit ==
    /\ cfg \in Configs
    /\ store = EmptyMap
    /\ wal = <<>>
    /\ seq = 0
    /\ mu = NoProc
    /\ pc = [p \in Procs |-> "idle"]
    /\ kind = [p \in Procs |-> "none"]
    /\ curOp = [p \in Procs |-> NoOp]
    /\ replicated = [o \in {} |-> 0]
    /\ applied = {}
    /\ issued = <<>>
    /\ failed = {}
    /\ delivered = {}
    /\ dupDelivered = FALSE
    /\ lateDelivered = FALSE
    /\ restarts = 0
    /\ calls = 0
    /\ replayMaxSeq = 0
    /\ syncedLen = 0

NoCmp == [done |-> FALSE, gt |-> FALSE, lt |-> FALSE, eq |-> FALSE,
          ltba |-> FALSE, gtbc |-> FALSE, gtac |-> FALSE]

VersionIdle ==
    /\ va = ZeroVersion /\ vb = ZeroVersion /\ vc = ZeroVersion
    /\ cmp = NoCmp

\* A call returns: the caller is idle again.
Return(p) ==
    /\ pc' = [pc EXCEPT ![p] = "idle"]
    /\ kind' = [kind EXCEPT ![p] = "none"]
    /\ curOp' = [curOp EXCEPT ![p] = NoOp]

HistSame == UNCHANGED <<delivered, dupDelivered, lateDelivered,
                        restarts, replayMaxSeq>>

CallsSame == UNCHANGED calls

SyncSame == UNCHANGED syncedLen

\* Engine.Put, line 99: stamp the operation.
PutCall(p) ==
    /\ pc[p] = "idle"
    /\ calls < MaxSeq
    /\ calls' = calls + 1
    /\ \E key \in Keys, value \in Values :
         LET s == AtomicAddUint64(seq, 1)
         IN /\ seq' = s
            /\ curOp' = [curOp EXCEPT ![p] = newOp(s, OpPut, key, value)]
            /\ issued' = Append(issued, s)
    /\ pc' = [pc EXCEPT ![p] = "append"]
    /\ kind' = [kind EXCEPT ![p] = "Put"]
    /\ UNCHANGED <<cfg, store, wal, mu, replicated, applied, failed, vvars, rvars, lvars>>
    /\ HistSame
    /\ SyncSame

\* Engine.Delete, line 123.
DeleteCall(p) ==
    /\ pc[p] = "idle"
    /\ calls < MaxSeq
    /\ calls' = calls + 1
    /\ \E key \in Keys :
         LET s == AtomicAddUint64(seq, 1)
         IN /\ seq' = s
            /\ curOp' = [curOp EXCEPT ![p] = newOp(s, OpDelete, key, Nil)]
            /\ issued' = Append(issued, s)
    /\ pc' = [pc EXCEPT ![p] = "append"]
    /\ kind' = [kind EXCEPT ![p] = "Delete"]
    /\ UNCHANGED <<cfg, store, wal, mu, replicated, applied, failed, vvars, rvars, lvars>>
    /\ HistSame
    /\ SyncSame

\* e.wal.Append(op) succeeds (Put 101, Delete 125).
WalAppend(p) ==
    /\ pc[p] = "append"
    /\ Len(wal) < MaxWal
    /\ wal' = Append(wal, curOp[p])
    /\ pc' = [pc EXCEPT ![p] = IF cfg.SyncWrites THEN "sync" ELSE "apply"]
    /\ UNCHANGED <<cfg, store, seq, mu, kind, curOp, replicated, applied,
                   issued, failed, vvars, rvars, lvars>>
    /\ HistSame
    /\ SyncSame
    /\ CallsSame

\* e.wal.Append(op) fails: the call returns the error (Put 102, Delete 126).
WalAppendFail(p) ==
    /\ pc[p] = "append"
    /\ failed' = failed \cup {curOp[p].Version}
    /\ Return(p)
    /\ UNCHANGED <<cfg, store, wal, seq, mu, replicated, applied, issued, vvars, rvars, lvars>>
    /\ HistSame
    /\ SyncSame
    /\ CallsSame

\* e.wal.Sync() succeeds (Put 106, Delete 130).
WalSync(p) ==
    /\ pc[p] = "sync"
    /\ pc' = [pc EXCEPT ![p] = "apply"]
    /\ UNCHANGED <<cfg, store, wal, seq, mu, kind, curOp, replicated, applied,
                   issued, failed, vvars, rvars, lvars>>
    /\ HistSame
    /\ syncedLen' = Len(wal)
    /\ CallsSame

\* A variant that applies the operation although the sync failed.
WalSyncFailApplies(p) ==
    /\ pc[p] = "sync"
    /\ mu = NoProc
    /\ store' = applyNoWal(store, curOp[p])
    /\ applied' = applied \cup {curOp[p]}
    /\ failed' = failed \cup {curOp[p].Version}
    /\ Return(p)
    /\ UNCHANGED <<cfg, wal, seq, mu, replicated, issued, vvars, rvars, lvars>>
    /\ HistSame
    /\ SyncSame
    /\ CallsSame

\* e.wal.Sync() fails: the call returns the error (Put 107, Delete 131).
WalSyncFail(p) ==
    /\ pc[p] = "sync"
    /\ failed' = failed \cup {curOp[p].Version}
    /\ Return(p)
    /\ UNCHANGED <<cfg, store, wal, seq, mu, replicated, applied, issued, vvars, rvars, lvars>>
    /\ HistSame
    /\ SyncSame
    /\ CallsSame

ApplyAlwaysReplicates(p) ==
    /\ pc[p] = "apply"
    /\ mu = NoProc
    /\ store' = applyNoWal(store, curOp[p])
    /\ applied' = applied \cup {curOp[p]}
    /\ pc' = [pc EXCEPT ![p] = "repl"]
    /\ UNCHANGED <<kind, curOp>>
    /\ UNCHANGED <<cfg, wal, seq, mu, replicated, issued, failed, vvars, rvars, lvars>>
    /\ HistSame
    /\ SyncSame
    /\ CallsSame

\* e.mu.Lock(); e.applyNoWal(op); e.mu.Unlock() (Put 111-113, Delete 135-137),
\* then the test of line 115/139: without replication the call returns nil.
Apply(p) ==
    /\ pc[p] = "apply"
    /\ mu = NoProc
    /\ store' = applyNoWal(store, curOp[p])
    /\ applied' = applied \cup {curOp[p]}
    /\ IF cfg.EnableReplica /\ cfg.HasRepl
       THEN /\ pc' = [pc EXCEPT ![p] = "repl"]
            /\ UNCHANGED <<kind, curOp>>
       ELSE Return(p)
    /\ UNCHANGED <<cfg, wal, seq, mu, replicated, issued, failed, vvars, rvars, lvars>>
    /\ HistSame
    /\ SyncSame
    /\ CallsSame

\* e.repl.Replicate(op); return nil (Put 116-119, Delete 140-143).
Replicate(p) ==
    /\ pc[p] = "repl"
    /\ replicated' = BagAdd(replicated, curOp[p])
    /\ Return(p)
    /\ UNCHANGED <<cfg, store, wal, seq, mu, applied, issued, failed, vvars, rvars, lvars>>
    /\ HistSame
    /\ SyncSame
    /\ CallsSame

\* A panic nobody recovers: the process and all its callers are gone.
Halt ==
    /\ pc' = [q \in Procs |-> "dead"]
    /\ kind' = [q \in Procs |-> "none"]
    /\ curOp' = [q \in Procs |-> NoOp]

\* What a nil return of ApplyReplica/Import adds to the history.
Deliver(op) ==
    /\ delivered' = delivered \cup {op}
    /\ dupDelivered' = (dupDelivered \/ op \in delivered)
    /\ lateDelivered' =
         (lateDelivered \/ \E o \in delivered :
              o.Key = op.Key /\ GreaterThan(o.Version, op.Version))

\* Engine.ApplyReplica, line 150 (k = "ApplyReplica"), or Engine.Import,
\* line 176, which calls it (k = "Import"): e.mu.Lock() is taken.
ReplicaCall(p, k) ==
    /\ pc[p] = "idle"
    /\ mu = NoProc
    /\ \E op \in RemoteOps :
         /\ curOp' = [curOp EXCEPT ![p] = op]
    /\ mu' = p
    /\ pc' = [pc EXCEPT ![p] = "ar_check"]
    /\ kind' = [kind EXCEPT ![p] = k]
    /\ UNCHANGED <<cfg, store, wal, seq, replicated, applied, issued, failed,
                   delivered, dupDelivered, lateDelivered, restarts, calls,
                   replayMaxSeq, syncedLen, vvars, rvars, lvars>>

ApplyReplicaCall(p) == ReplicaCall(p, "ApplyReplica")

\* An operation whose Type is neither OpPut nor OpDelete, as a corrupted or
\* foreign sender would produce it.
UnknownOps ==
    {[Type |-> OpUnknown, Key |-> "k1", Value |-> Nil,
      Version |-> [NodeID |-> <<1, 1>>, Seq |-> 1]]}

\* Engine.ApplyReplica or Engine.Import called with such an operation.
CorruptCall(p) ==
    /\ pc[p] = "idle"
    /\ mu = NoProc
    /\ \E op \in UnknownOps, k \in {"ApplyReplica", "Import"} :
         /\ curOp' = [curOp EXCEPT ![p] = op]
         /\ kind' = [kind EXCEPT ![p] = k]
    /\ mu' = p
    /\ pc' = [pc EXCEPT ![p] = "ar_check"]
    /\ UNCHANGED <<cfg, store, wal, seq, replicated, applied, issued, failed,
                   delivered, dupDelivered, lateDelivered, restarts, calls,
                   replayMaxSeq, syncedLen, vvars, rvars, lvars>>

ImportCall(p) == ReplicaCall(p, "Import")

\* Lines 153-157: the lookup and the stale-or-duplicate test.
IsStale(data, op) ==
    LET r == MemStoreGet(data, op.Key)
    IN r.ok /\ VersionGE(r.rec.Version, op.Version)

ReplicaCheck(p) ==
    /\ pc[p] = "ar_check"
    /\ IF IsStale(store, curOp[p])
       THEN /\ Deliver(curOp[p])
            /\ mu' = NoProc
            /\ Return(p)
       ELSE /\ pc' = [pc EXCEPT ![p] = "ar_append"]
            /\ UNCHANGED <<mu, kind, curOp, delivered, dupDelivered,
                           lateDelivered>>
    /\ UNCHANGED <<cfg, store, wal, seq, replicated, applied, issued,
                   failed, restarts, calls, replayMaxSeq, syncedLen, vvars, rvars, lvars>>

\* Line 159, e.wal.Append(op) succeeds, still under e.mu.
ReplicaAppend(p) ==
    /\ pc[p] = "ar_append"
    /\ Len(wal) < MaxWal
    /\ wal' = Append(wal, curOp[p])
    /\ pc' = [pc EXCEPT ![p] = "ar_apply"]
    /\ UNCHANGED <<cfg, store, seq, mu, kind, curOp, replicated, applied,
                   issued, failed, vvars, rvars, lvars>>
    /\ HistSame
    /\ SyncSame
    /\ CallsSame

\* Lines 159-161, e.wal.Append(op) fails: return err, the deferred Unlock runs.
ReplicaAppendFail(p) ==
    /\ pc[p] = "ar_append"
    /\ mu' = NoProc
    /\ Return(p)
    /\ UNCHANGED <<cfg, store, wal, seq, replicated, applied, issued, failed,
                   vvars, rvars, lvars>>
    /\ HistSame
    /\ SyncSame
    /\ CallsSame

\* Lines 163-164: e.applyNoWal(op); return nil; the deferred Unlock runs.
\* An operation of unknown type makes applyNoWal panic instead.
ReplicaApply(p) ==
    /\ pc[p] = "ar_apply"
    /\ IF Panics(curOp[p])
       THEN /\ Halt
            /\ UNCHANGED <<store, applied, delivered, dupDelivered,
                           lateDelivered>>
       ELSE /\ store' = applyNoWal(store, curOp[p])
            /\ applied' = applied \cup {curOp[p]}
            /\ Deliver(curOp[p])
            /\ Return(p)
    /\ mu' = NoProc
    /\ UNCHANGED <<cfg, wal, seq, replicated, issued, failed, restarts, calls,
                   replayMaxSeq, syncedLen, vvars, rvars, lvars>>

\* NewEngine: a zero Engine (seq = 0) whose store is the replayed log.
NewEngine(ops) == [store |-> ReplayOps(EmptyMap, ops), seq |-> 0]

LocalSeqs(ops) == {o.Version.Seq : o \in {x \in Range(ops) : x.Version.NodeID = LocalNode}}

\* The process stops wherever its callers are and NewEngine runs over the log;
\* replaying an operation of unknown type panics inside NewEngine.
Restart ==
    /\ restarts < MaxRestarts
    /\ restarts' = restarts + 1
    /\ store' = NewEngine(wal).store
    /\ seq' = NewEngine(wal).seq
    /\ mu' = NoProc
    /\ IF \E i \in DOMAIN wal : Panics(wal[i])
       THEN Halt
       ELSE /\ pc' = [p \in Procs |-> "idle"]
            /\ kind' = [p \in Procs |-> "none"]
            /\ curOp' = [p \in Procs |-> NoOp]
    /\ applied' = Range(wal)
    /\ issued' = <<>>
    /\ failed' = {}
    /\ delivered' = {}
    /\ dupDelivered' = FALSE
    /\ lateDelivered' = FALSE
    /\ replayMaxSeq' = Max({0} \cup LocalSeqs(wal))
    /\ UNCHANGED <<cfg, wal, replicated, calls, syncedLen, vvars, rvars, lvars>>

\* ------------------------------------------------- Version-order check
RECURSIVE Strings(_)
Strings(n) ==
    IF n = 0 THEN {<<>>}
    ELSE LET S == Strings(n - 1)
         IN S \cup {Append(s, b) : s \in S, b \in {1, 2}}

Versions == [NodeID : Strings(MaxIdLen), Seq : 0..MaxVSeq]

VersionInit ==
    /\ va \in Versions /\ vb \in Versions /\ vc \in Versions
    /\ cmp = NoCmp

CompareVersions ==
    /\ ~cmp.done
    /\ cmp' = [done |-> TRUE, gt |-> GreaterThan(va, vb), lt |-> LessThan(va, vb),
               eq |-> Equal(va, vb), ltba |-> LessThan(vb, va),
               gtbc |-> GreaterThan(vb, vc), gtac |-> GreaterThan(va, vc)]
    /\ UNCHANGED <<va, vb, vc, evars, rvars, lvars>>


\* ------------------------------------------------------------------ ring
RingNodes == {"A", "B", "C"}           \* physical NodeIDs
SelNodes == {"A", "B", "C"}             \* physical nodes of a ring that is only read
NoNode == ""                          \* the empty NodeID GetPrimary returns
Hashes == 0..MaxHash                  \* stands for the uint32 range of hashID
Labels == RingNodes \X (0..(MaxWeight - 1))

NoCall == [op |-> "none", id |-> NoNode, weight |-> 0, keyHash |-> 0, n |-> 0,
           healthy |-> {}, result |-> <<>>]

ReadPrimary == 0
ReadAnyReplica == 1
WritePrimaryOnly == 0
WriteReplicate == 1

\* The zero SelectorConfig.
NoSelector == [ReplicationFactor |-> 0, ReadConsistency |-> ReadPrimary,
               WriteConsistency |-> WritePrimaryOnly]

\* hashID is some function of the label; which one is left open, so equal
\* hashes of different labels occur.
RingInit ==
    /\ hashOf \in [Labels -> Hashes]
    /\ entries = <<>>
    /\ rlast = NoCall
    /\ scfg = NoSelector

RingIdle ==
    /\ hashOf = [l \in Labels |-> 0]
    /\ entries = <<>>
    /\ rlast = NoCall
    /\ scfg = NoSelector

\* sort.Search(len(ents), func(i) { return ents[i].hash >= keyHash }):
\* Go's binary search on [i, j), indices from 0.
RECURSIVE SearchGE(_, _, _, _)
SearchGE(ents, keyHash, i, j) ==
    IF i < j
    THEN LET h == (i + j) \div 2
         IN IF ~(ents[h + 1].hash >= keyHash)
            THEN SearchGE(ents, keyHash, h + 1, j)
            ELSE SearchGE(ents, keyHash, i, h)
    ELSE i

\* ring.GetPrimary with hashID(key) = keyHash.
GetPrimary(ents, keyHash) ==
    IF Len(ents) = 0 THEN NoNode
    ELSE LET idx == SearchGE(ents, keyHash, 0, Len(ents))
         IN ents[(IF idx = Len(ents) THEN 0 ELSE idx) + 1].id

\* The loop of ring.GetReplicas, lines 125-136.
RECURSIVE ReplicaLoop(_, _, _, _, _, _)
ReplicaLoop(ents, start, n, i, replicas, seen) ==
    IF Len(replicas) < n /\ i < Len(ents)
    THEN LET idx == (start + i) % Len(ents)
             nodeID == ents[idx + 1].id
         IN IF nodeID \in seen
            THEN ReplicaLoop(ents, start, n, i + 1, replicas, seen)
            ELSE ReplicaLoop(ents, start, n, i + 1, Append(replicas, nodeID),
                             seen \cup {nodeID})
    ELSE replicas

GetReplicasFromZero(ents, keyHash, n) ==
    IF Len(ents) = 0 \/ n <= 0 THEN <<>>
    ELSE ReplicaLoop(ents, 0, n, 0, <<>>, {})

\* ring.GetReplicas with hashID(key) = keyHash; nil is the empty list.
GetReplicas(ents, keyHash, n) ==
    IF Len(ents) = 0 \/ n <= 0 THEN <<>>
    ELSE LET s == SearchGE(ents, keyHash, 0, Len(ents))
             start == IF s = Len(ents) THEN 0 ELSE s
         IN ReplicaLoop(ents, start, n, 0, <<>>, {})

\* ring.Nodes: the physical nodes in order of first appearance.
RECURSIVE NodesLoop(_, _, _, _)
NodesLoop(ents, i, nodes, seen) ==
    IF i > Len(ents) THEN nodes
    ELSE IF ents[i].id \in seen
    THEN NodesLoop(ents, i + 1, nodes, seen)
    ELSE NodesLoop(ents, i + 1, Append(nodes, ents[i].id), seen \cup {ents[i].id})

RingNodesOf(ents) == NodesLoop(ents, 1, <<>>, {})

\* The loop of ring.RemoveNode, lines 68-75.
RECURSIVE RemoveLoop(_, _, _, _)
RemoveLoop(ents, id, i, kept) ==
    IF i > Len(ents) THEN kept
    ELSE IF ents[i].id # id
    THEN RemoveLoop(ents, id, i + 1, Append(kept, ents[i]))
    ELSE RemoveLoop(ents, id, i + 1, kept)

\* Virtual positions of id in the ring.
CountOf(ents, id) == Cardinality({i \in 1..Len(ents) : ents[i].id = id})

\* The entries AddNode appends, lines 46-55: one per virtual label.
NewEntries(id, weight) ==
    [i \in 1..weight |-> [hash |-> hashOf[<<id, i - 1>>], id |-> id]]

\* sort.Slice by hash, lines 58-60: not stable, so any arrangement of the
\* slice that is in hash order can come out.
IsSortedByHash(ents) ==
    \A i \in 1..(Len(ents) - 1) : ents[i].hash <= ents[i + 1].hash

Without(ents, i) == SubSeq(ents, 1, i - 1) \o SubSeq(ents, i + 1, Len(ents))

SortSliceNone(ents) == {ents}

RECURSIVE SortSlice(_)
SortSlice(ents) ==
    IF Len(ents) = 0 THEN {<<>>}
    ELSE UNION {{<<ents[i]>> \o rest : rest \in SortSlice(Without(ents, i))} :
                  i \in {j \in 1..Len(ents) :
                            \A m \in 1..Len(ents) : ents[j].hash <= ents[m].hash}}

RingSame == UNCHANGED <<evars, vvars, hashOf, scfg, lvars>>

\* ring.AddNode(id, weight); rlast.n keeps how many positions id had before.
AddNode ==
    \E id \in RingNodes, weight \in 0..MaxWeight :
        /\ Len(entries) + weight <= MaxEntries
        /\ entries' \in SortSlice(entries \o NewEntries(id, weight))
        /\ rlast' = [NoCall EXCEPT !.op = "AddNode", !.id = id, !.weight = weight,
                       !.n = CountOf(entries, id)]
        /\ RingSame

RemoveEntriesKeepsLast(ents, id) ==
    LET kept == RemoveLoop(ents, id, 1, <<>>)
    IN IF CountOf(ents, id) > 1 THEN Append(kept, [hash |-> MaxHash, id |-> id])
       ELSE kept

RemoveEntriesReversed(ents, id) ==
    LET kept == RemoveLoop(ents, id, 1, <<>>)
    IN [i \in 1..Len(kept) |-> kept[Len(kept) + 1 - i]]

\* The body of ring.RemoveNode: filter r.entries in place.
RemoveEntries(ents, id) == RemoveLoop(ents, id, 1, <<>>)

\* ring.RemoveNode(id); rlast.n keeps how many positions id had before.
RemoveNode ==
    \E id \in RingNodes :
        /\ entries' = RemoveEntries(entries, id)
        /\ rlast' = [NoCall EXCEPT !.op = "RemoveNode", !.id = id,
                       !.n = CountOf(entries, id)]
        /\ RingSame

\* ring.GetPrimary(key), the key hashing to keyHash.
GetPrimaryCall ==
    \E keyHash \in Hashes :
        /\ rlast' = [NoCall EXCEPT !.op = "GetPrimary", !.keyHash = keyHash,
                       !.result = <<GetPrimary(entries, keyHash)>>]
        /\ UNCHANGED entries
        /\ RingSame

\* ring.GetReplicas(key, n).
GetReplicasCall ==
    \E keyHash \in Hashes, n \in 0..MaxN :
        /\ rlast' = [NoCall EXCEPT !.op = "GetReplicas", !.keyHash = keyHash,
                       !.n = n, !.result = GetReplicas(entries, keyHash, n)]
        /\ UNCHANGED entries
        /\ RingSame

\* ring.Nodes().
NodesCall ==
    /\ rlast' = [NoCall EXCEPT !.op = "Nodes", !.result = RingNodesOf(entries)]
    /\ UNCHANGED entries
    /\ RingSame

NextRing ==
    \/ AddNode
    \/ RemoveNode

\* The rings a lookup or a selector can meet: any entry list in hash order.
SortedRings ==
    {r \in UNION {[1..k -> [hash : Hashes, id : SelNodes]] : k \in 0..MaxSelEntries} :
        IsSortedByHash(r)}

\* A ring built earlier, now only read.
LookupInit ==
    /\ hashOf = [l \in Labels |-> 0]
    /\ entries \in SortedRings
    /\ rlast = NoCall
    /\ scfg = NoSelector

NextLookup ==
    \/ GetPrimaryCall
    \/ GetReplicasCall
    \/ NodesCall

\* -------------------------------------------------------------- selector
\* The declared values of ReadConsistency and of WriteConsistency.
Consistencies == {0, 1}

SelectorConfigs ==
    [ReplicationFactor : 0..MaxRF, ReadConsistency : Consistencies,
     WriteConsistency : Consistencies]

\* NewNodeSelector(ring, self, health, cfg).
SelectorInit ==
    /\ hashOf = [l \in Labels |-> 0]
    /\ entries \in SortedRings
    /\ rlast = NoCall
    /\ scfg \in SelectorConfigs

\* selector.Replicas(key).
Replicas(ents, c, keyHash) == GetReplicas(ents, keyHash, c.ReplicationFactor)

\* The loop of WriteTargets under WriteReplicate, lines 93-98.
RECURSIVE HealthyLoop(_, _, _, _)
HealthyLoop(replicas, healthy, i, targets) ==
    IF i > Len(replicas) THEN targets
    ELSE IF replicas[i] \in healthy
    THEN HealthyLoop(replicas, healthy, i + 1, Append(targets, replicas[i]))
    ELSE HealthyLoop(replicas, healthy, i + 1, targets)

\* The loop of ReadTargets under ReadAnyReplica, lines 125-130.
RECURSIVE FirstHealthyLoop(_, _, _)
FirstHealthyLoop(replicas, healthy, i) ==
    IF i > Len(replicas) THEN <<>>
    ELSE IF replicas[i] \in healthy THEN <<replicas[i]>>
    ELSE FirstHealthyLoop(replicas, healthy, i + 1)

WriteTargetsIgnoreHealth(ents, c, healthy, keyHash) ==
    LET replicas == Replicas(ents, c, keyHash)
    IN IF Len(replicas) = 0 THEN <<>>
       ELSE IF c.WriteConsistency = WritePrimaryOnly THEN <<replicas[1]>>
       ELSE IF c.WriteConsistency = WriteReplicate THEN replicas
       ELSE <<>>

\* selector.WriteTargets(key); healthy is the set health.IsHealthy accepts.
WriteTargets(ents, c, healthy, keyHash) ==
    LET replicas == Replicas(ents, c, keyHash)
    IN IF Len(replicas) = 0 THEN <<>>
       ELSE IF c.WriteConsistency = WritePrimaryOnly
       THEN (IF replicas[1] \in healthy THEN <<replicas[1]>> ELSE <<>>)
       ELSE IF c.WriteConsistency = WriteReplicate
       THEN HealthyLoop(replicas, healthy, 1, <<>>)
       ELSE <<>>

ReadTargetsPrimaryFallback(ents, c, healthy, keyHash) ==
    LET replicas == Replicas(ents, c, keyHash)
    IN IF Len(replicas) = 0 THEN <<>>
       ELSE IF c.ReadConsistency = ReadPrimary
       THEN (IF replicas[1] \in healthy THEN <<replicas[1]>> ELSE <<>>)
       ELSE IF c.ReadConsistency = ReadAnyReplica
       THEN (IF \E i \in DOMAIN replicas : replicas[i] \in healthy
             THEN <<replicas[1]>> ELSE <<>>)
       ELSE <<>>

\* selector.ReadTargets(key).
ReadTargets(ents, c, healthy, keyHash) ==
    LET replicas == Replicas(ents, c, keyHash)
    IN IF Len(replicas) = 0 THEN <<>>
       ELSE IF c.ReadConsistency = ReadPrimary
       THEN (IF replicas[1] \in healthy THEN <<replicas[1]>> ELSE <<>>)
       ELSE IF c.ReadConsistency = ReadAnyReplica
       THEN FirstHealthyLoop(replicas, healthy, 1)
       ELSE <<>>

SelectorSame == UNCHANGED <<evars, vvars, hashOf, entries, scfg, lvars>>

WriteTargetsCall ==
    \E keyHash \in Hashes, healthy \in SUBSET SelNodes :
        /\ rlast' = [NoCall EXCEPT !.op = "WriteTargets", !.keyHash = keyHash,
                       !.healthy = healthy,
                       !.result = WriteTargets(entries, scfg, healthy, keyHash)]
        /\ SelectorSame

ReadTargetsCall ==
    \E keyHash \in Hashes, healthy \in SUBSET SelNodes :
        /\ rlast' = [NoCall EXCEPT !.op = "ReadTargets", !.keyHash = keyHash,
                       !.healthy = healthy,
                       !.result = ReadTargets(entries, scfg, healthy, keyHash)]
        /\ SelectorSame

NextSelector ==
    \/ WriteTargetsCall
    \/ ReadTargetsCall

\* ----------------------------------------------------------------- locks
\* The Engine calls seen as the lock operations they perform, in order.
LockProcs == {1, 2}                   \* goroutines calling the Engine

\* A sync.RWMutex: w is the goroutine that passed rw.w.Lock() and announced
\* itself to the readers, readers are the goroutines inside RLock..RUnlock.
FreeRW == [w |-> NoProc, readers |-> {}]

NoLockCall == [kind |-> "none", outcome |-> "none"]

\* Engine.Get: e.mu.RLock, then MemStore.Get under s.mu.RLock.
GetLocksStoreFirst == <<"s.RLock", "e.RLock", "e.RUnlock", "s.RUnlock">>

GetLocks == <<"e.RLock", "s.RLock", "s.RUnlock", "e.RUnlock">>

\* Engine.Export: e.mu.RLock, then MemStore.Scan, which runs the visitor
\* under s.mu.RLock; the visitor takes no Engine lock.
ExportLocks == <<"e.RLock", "s.RLock", "visit", "s.RUnlock", "e.RUnlock">>

\* FileWAL.Append and FileWAL.Sync: w.mu.Lock, deferred Unlock.
WalLocks == <<"w.Lock", "w.Unlock">>

\* MemStore.Put as called by applyNoWal: s.mu.Lock, deferred Unlock.
StorePutLocks == <<"s.Lock", "s.Wait", "s.Unlock">>

\* Engine.Put and Engine.Delete: Append, Sync when SyncWrites, then
\* applyNoWal between e.mu.Lock and e.mu.Unlock; an error returns early.
PutLocks(sync, outcome) ==
    IF outcome = "append_err" THEN WalLocks
    ELSE IF outcome = "sync_err" THEN WalLocks \o WalLocks
    ELSE WalLocks \o (IF sync THEN WalLocks ELSE <<>>)
           \o <<"e.Lock", "e.Wait">> \o StorePutLocks \o <<"e.Unlock">>

\* Engine.ApplyReplica and Engine.Import: everything between e.mu.Lock and
\* the deferred e.mu.Unlock: MemStore.Get, then Append and applyNoWal unless
\* the operation is stale or Append fails.
ApplyReplicaLocks(outcome) ==
    <<"e.Lock", "e.Wait", "s.RLock", "s.RUnlock">>
      \o (IF outcome = "stale" THEN <<>>
          ELSE IF outcome = "append_err" THEN WalLocks
          ELSE WalLocks \o StorePutLocks)
      \o <<"e.Unlock">>

LocksOf(sync, call) ==
    IF call.kind = "Get" THEN GetLocks
    ELSE IF call.kind = "Export" THEN ExportLocks
    ELSE IF call.kind \in {"Put", "Delete"} THEN PutLocks(sync, call.outcome)
    ELSE IF call.kind \in {"ApplyReplica", "Import"} THEN ApplyReplicaLocks(call.outcome)
    ELSE <<>>

\* The calls a goroutine can make, with the way each one turns out.
LockCalls(sync) ==
    [kind : {"Get", "Export"}, outcome : {"ok"}]
      \cup [kind : {"Put", "Delete"},
            outcome : {"ok", "append_err"} \cup (IF sync THEN {"sync_err"} ELSE {})]
      \cup [kind : {"ApplyReplica", "Import"}, outcome : {"ok", "stale", "append_err"}]

LocksInit ==
    /\ lsync \in BOOLEAN
    /\ lcall = [p \in LockProcs |-> NoLockCall]
    /\ lpc = [p \in LockProcs |-> 0]
    /\ emu = FreeRW
    /\ smu = FreeRW
    /\ wmu = NoProc

LocksIdle ==
    /\ lsync = FALSE
    /\ lcall = [p \in LockProcs |-> NoLockCall]
    /\ lpc = [p \in LockProcs |-> 0]
    /\ emu = FreeRW
    /\ smu = FreeRW
    /\ wmu = NoProc

\* The lock operation goroutine p performs next; "return" after the last.
NextLockOp(p) ==
    LET ops == LocksOf(lsync, lcall[p])
    IN IF lcall[p] = NoLockCall THEN "idle"
       ELSE IF lpc[p] < Len(ops) THEN ops[lpc[p] + 1]
       ELSE "return"

LockDone(p) == lpc' = [lpc EXCEPT ![p] = @ + 1]

LocksSame == UNCHANGED <<evars, vvars, rvars, lsync>>

\* A goroutine enters one of the Engine's calls.
LockCall(p) ==
    /\ lcall[p] = NoLockCall
    /\ \E call \in LockCalls(lsync) : lcall' = [lcall EXCEPT ![p] = call]
    /\ UNCHANGED <<lpc, emu, smu, wmu>>
    /\ LocksSame

\* RWMutex.RLock: passes unless a writer has announced itself.
RLockEnabled(mutex, p) == mutex.w = NoProc

EngineRLock(p) ==
    /\ NextLockOp(p) = "e.RLock"
    /\ RLockEnabled(emu, p)
    /\ emu' = [emu EXCEPT !.readers = @ \cup {p}]
    /\ LockDone(p)
    /\ UNCHANGED <<lcall, smu, wmu>>
    /\ LocksSame

EngineRUnlock(p) ==
    /\ NextLockOp(p) = "e.RUnlock"
    /\ emu' = [emu EXCEPT !.readers = @ \ {p}]
    /\ LockDone(p)
    /\ UNCHANGED <<lcall, smu, wmu>>
    /\ LocksSame

\* RWMutex.Lock, first half: rw.w.Lock() and the announcement to readers.
EngineLock(p) ==
    /\ NextLockOp(p) = "e.Lock"
    /\ emu.w = NoProc
    /\ emu' = [emu EXCEPT !.w = p]
    /\ LockDone(p)
    /\ UNCHANGED <<lcall, smu, wmu>>
    /\ LocksSame

\* RWMutex.Lock, second half: wait until the readers inside have left.
EngineLockWait(p) ==
    /\ NextLockOp(p) = "e.Wait"
    /\ emu.readers = {}
    /\ LockDone(p)
    /\ UNCHANGED <<lcall, emu, smu, wmu>>
    /\ LocksSame

EngineUnlock(p) ==
    /\ NextLockOp(p) = "e.Unlock"
    /\ emu' = [emu EXCEPT !.w = NoProc]
    /\ LockDone(p)
    /\ UNCHANGED <<lcall, smu, wmu>>
    /\ LocksSame

StoreRLock(p) ==
    /\ NextLockOp(p) = "s.RLock"
    /\ RLockEnabled(smu, p)
    /\ smu' = [smu EXCEPT !.readers = @ \cup {p}]
    /\ LockDone(p)
    /\ UNCHANGED <<lcall, emu, wmu>>
    /\ LocksSame

\* The Export visitor runs; it makes no Engine call.
Visit(p) ==
    /\ NextLockOp(p) = "visit"
    /\ LockDone(p)
    /\ UNCHANGED <<lcall, emu, smu, wmu>>
    /\ LocksSame

StoreRUnlock(p) ==
    /\ NextLockOp(p) = "s.RUnlock"
    /\ smu' = [smu EXCEPT !.readers = @ \ {p}]
    /\ LockDone(p)
    /\ UNCHANGED <<lcall, emu, wmu>>
    /\ LocksSame

StoreLock(p) ==
    /\ NextLockOp(p) = "s.Lock"
    /\ smu.w = NoProc
    /\ smu' = [smu EXCEPT !.w = p]
    /\ LockDone(p)
    /\ UNCHANGED <<lcall, emu, wmu>>
    /\ LocksSame

StoreLockWait(p) ==
    /\ NextLockOp(p) = "s.Wait"
    /\ smu.readers = {}
    /\ LockDone(p)
    /\ UNCHANGED <<lcall, emu, smu, wmu>>
    /\ LocksSame

StoreUnlock(p) ==
    /\ NextLockOp(p) = "s.Unlock"
    /\ smu' = [smu EXCEPT !.w = NoProc]
    /\ LockDone(p)
    /\ UNCHANGED <<lcall, emu, wmu>>
    /\ LocksSame

\* sync.Mutex.Lock of the WAL; the WAL call under it returns.
WalLock(p) ==
    /\ NextLockOp(p) = "w.Lock"
    /\ wmu = NoProc
    /\ wmu' = p
    /\ LockDone(p)
    /\ UNCHANGED <<lcall, emu, smu>>
    /\ LocksSame

WalUnlock(p) ==
    /\ NextLockOp(p) = "w.Unlock"
    /\ wmu' = NoProc
    /\ LockDone(p)
    /\ UNCHANGED <<lcall, emu, smu>>
    /\ LocksSame

\* The call returns to its caller.
LockReturn(p) ==
    /\ NextLockOp(p) = "return"
    /\ lcall' = [lcall EXCEPT ![p] = NoLockCall]
    /\ lpc' = [lpc EXCEPT ![p] = 0]
    /\ UNCHANGED <<emu, smu, wmu>>
    /\ LocksSame

\* Every step of a call that is under way.
LockStep(p) ==
    \/ EngineRLock(p)
    \/ EngineRUnlock(p)
    \/ EngineLock(p)
    \/ EngineLockWait(p)
    \/ EngineUnlock(p)
    \/ StoreRLock(p)
    \/ Visit(p)
    \/ StoreRUnlock(p)
    \/ StoreLock(p)
    \/ StoreLockWait(p)
    \/ StoreUnlock(p)
    \/ WalLock(p)
    \/ WalUnlock(p)
    \/ LockReturn(p)

NextLocks ==
    \/ \E p \in LockProcs : LockCall(p)
    \/ \E p \in LockProcs : EngineRLock(p)
    \/ \E p \in LockProcs : EngineRUnlock(p)
    \/ \E p \in LockProcs : EngineLock(p)
    \/ \E p \in LockProcs : EngineLockWait(p)
    \/ \E p \in LockProcs : EngineUnlock(p)
    \/ \E p \in LockProcs : StoreRLock(p)
    \/ \E p \in LockProcs : Visit(p)
    \/ \E p \in LockProcs : StoreRUnlock(p)
    \/ \E p \in LockProcs : StoreLock(p)
    \/ \E p \in LockProcs : StoreLockWait(p)
    \/ \E p \in LockProcs : StoreUnlock(p)
    \/ \E p \in LockProcs : WalLock(p)
    \/ \E p \in LockProcs : WalUnlock(p)
    \/ \E p \in LockProcs : LockReturn(p)

\* Go's scheduler runs every runnable goroutine, sync.Mutex hands the lock
\* to a starving waiter, and RWMutex lets neither readers nor writers
\* overtake a blocked one for ever: a call that can take a step again and
\* again takes it.
LockFairness == \A p \in LockProcs : SF_vars(LockStep(p))

\* ------------------------------------------------------- specifications
Next ==
    \/ \E p \in Procs : PutCall(p)
    \/ \E p \in Procs : DeleteCall(p)
    \/ \E p \in Procs : WalAppend(p)
    \/ \E p \in Procs : WalAppendFail(p)
    \/ \E p \in Procs : WalSync(p)
    \/ \E p \in Procs : WalSyncFail(p)
    \/ \E p \in Procs : Apply(p)
    \/ \E p \in Procs : Replicate(p)
    \/ \E p \in Procs : ApplyReplicaCall(p)
    \/ \E p \in Procs : ImportCall(p)
    \/ \E p \in Procs : ReplicaCheck(p)
    \/ \E p \in Procs : ReplicaAppend(p)
    \/ \E p \in Procs : ReplicaAppendFail(p)
    \/ \E p \in Procs : ReplicaApply(p)

NextCrash == Next \/ Restart

Init == EngineInit /\ VersionIdle /\ RingIdle /\ LocksIdle

Spec == Init /\ [][Next]_vars

SpecCrash == Init /\ [][NextCrash]_vars

NextCorrupt == NextCrash \/ \E p \in Procs : CorruptCall(p)

SpecCorrupt == Init /\ [][NextCorrupt]_vars

EngineIdle ==
    EngineInit /\ cfg = [SyncWrites |-> FALSE, EnableReplica |-> FALSE, HasRepl |-> TRUE]

InitVersion == VersionInit /\ EngineIdle /\ RingIdle /\ LocksIdle

SpecVersion == InitVersion /\ [][CompareVersions]_vars

InitRing == RingInit /\ EngineIdle /\ VersionIdle /\ LocksIdle

SpecRing == InitRing /\ [][NextRing]_vars

InitLookup == LookupInit /\ EngineIdle /\ VersionIdle /\ LocksIdle

SpecLookup == InitLookup /\ [][NextLookup]_vars

InitSelector == SelectorInit /\ EngineIdle /\ VersionIdle /\ LocksIdle

SpecSelector == InitSelector /\ [][NextSelector]_vars

InitLocks == LocksInit /\ EngineIdle /\ VersionIdle /\ RingIdle

SpecLocks == InitLocks /\ [][NextLocks]_vars /\ LockFairness

\* ================================================================ claims
\* The order the specification describes, written without the code's
\* comparison methods: Seq first, then NodeID lexicographically.
LexLess(s, t) ==
    \E i \in 1..Len(t) :
        /\ \A j \in 1..(i - 1) : j <= Len(s) /\ s[j] = t[j]
        /\ (i = Len(s) + 1 \/ (i <= Len(s) /\ s[i] < t[i]))

VLess(a, b) ==
    a.Seq < b.Seq \/ (a.Seq = b.Seq /\ LexLess(a.NodeID, b.NodeID))

MaxOp(S) == CHOOSE o \in S : \A x \in S : x = o \/ VLess(x.Version, o.Version)

HasMaxOp(S) == \E o \in S : \A x \in S : x = o \/ VLess(x.Version, o.Version)

RecordOf(o) ==
    [Value |-> IF o.Type = OpPut THEN o.Value ELSE Nil,
     Version |-> o.Version,
     Tombstone |-> (o.Type = OpDelete)]

AppliedFor(k) == {o \in applied : o.Key = k}

DeliveredFor(k) == {o \in delivered : o.Key = k}

IsLocal(o) == o.Version.NodeID = LocalNode

Quiescent == \A p \in Procs : pc[p] = "idle"

\* C1 - last-writer-wins: in every state of a running Engine, each key has a
\* Record iff some operation was applied for it, and that Record carries the
\* maximal Version of the operations applied so far for the key, is a
\* tombstone exactly when that maximal operation is a Delete, and holds its
\* value when it is a Put.
C1_LastWriterWins ==
    \A k \in Keys :
        IF AppliedFor(k) = {}
        THEN k \notin DOMAIN store
        ELSE /\ k \in DOMAIN store
             /\ HasMaxOp(AppliedFor(k))
             /\ LET m == MaxOp(AppliedFor(k))
                IN /\ store[k].Version = m.Version
                   /\ store[k].Tombstone = (m.Type = OpDelete)
                   /\ (m.Type = OpPut => store[k].Value = m.Value)

\* A key for which a local operation was applied although the Record already
\* carried a newer remote Version.
C1_Witness ==
    \E k \in Keys : \E o1, o2 \in AppliedFor(k) :
        /\ IsLocal(o1) /\ ~IsLocal(o2)
        /\ VLess(o1.Version, o2.Version)
        /\ store[k] = RecordOf(o2)
        /\ wal # <<>> /\ wal[Len(wal)] = o1

\* C2 - replica apply is idempotent and order-independent: for a key that
\* only ApplyReplica/Import have written, the Record is the one built from
\* the highest-Version operation among those delivered (calls that returned
\* nil), whatever the order and however often each was delivered.
C2_ReplicaConvergence ==
    \A k \in Keys :
        (\A o \in AppliedFor(k) : ~IsLocal(o)) =>
            IF DeliveredFor(k) = {}
            THEN k \notin DOMAIN store
            ELSE /\ k \in DOMAIN store
                 /\ store[k] = RecordOf(MaxOp(DeliveredFor(k)))

\* Both remote operations on k1 were delivered, one of them twice and one of
\* them after the newer one.
C2_Witness ==
    /\ dupDelivered /\ lateDelivered
    /\ Cardinality(DeliveredFor("k1")) >= 2
    /\ \A o \in AppliedFor("k1") : ~IsLocal(o)
    /\ "k1" \in DOMAIN store

\* The Store holds a Record for op.Key, live or tombstoned, whose Version is
\* equal to or greater than op.Version.
HoldsNotOlder(data, op) ==
    /\ op.Key \in DOMAIN data
    /\ ~VLess(data[op.Key].Version, op.Version)

\* C3 - stale or duplicate replica operations are dropped without side
\* effects: while the Store holds a Record for op.Key (live or tombstoned)
\* with a Version equal to or greater than op.Version, no step of
\* ApplyReplica(op) or Import(op) changes the WAL or the Store.
C3_StaleDropped ==
    [][\A p \in Procs :
         (/\ pc[p] \in {"ar_check", "ar_append", "ar_apply"}
          /\ pc'[p] # pc[p]
          /\ HoldsNotOlder(store, curOp[p]))
         => (wal' = wal /\ store' = store)]_vars

\* C4 - a durability failure aborts the write: the operation of a Put or
\* Delete that returned a WAL error was never applied to the Store and never
\* handed to the Replicator.
C4_FailureAborts ==
    \A v \in failed :
        /\ \A o \in applied : o.Version # v
        /\ \A o \in DOMAIN replicated : o.Version # v

\* A write failed and a later write of the same Engine was applied.
C4_Witness ==
    \E v \in failed : \E o \in applied :
        IsLocal(o) /\ o.Version.Seq > v.Seq /\ store[o.Key] = RecordOf(o)

\* A Delete call's locked apply step (not the process stopping).
DeleteApplies(p) ==
    /\ kind[p] = "Delete" /\ pc[p] = "apply"
    /\ pc'[p] \in {"repl", "idle"}
    /\ restarts' = restarts

OpsFor(ops, k) == {o \in Range(ops) : o.Key = k}

FoldGet(ops, k) ==
    IF OpsFor(ops, k) = {} \/ ~HasMaxOp(OpsFor(ops, k))
    THEN [value |-> Nil, found |-> FALSE]
    ELSE LET m == MaxOp(OpsFor(ops, k))
         IN IF m.Type = OpDelete
            THEN [value |-> Nil, found |-> FALSE]
            ELSE [value |-> m.Value, found |-> TRUE]

\* C6 - crash-restart equivalence: whenever no call is in progress, a fresh
\* Engine built by NewEngine over the current WAL answers Get for every key
\* as the live Engine does, and as the highest-Version fold of the log does.
C6_RestartEquivalence ==
    Quiescent =>
        \A k \in Keys :
            /\ EngineGet(NewEngine(wal).store, k) = EngineGet(store, k)
            /\ EngineGet(NewEngine(wal).store, k) = FoldGet(wal, k)

\* C7 - no Version reuse across restart: every local Put/Delete in progress
\* carries a Seq strictly greater than every local Seq in the WAL that
\* NewEngine replayed.
C7_NoSeqReuse ==
    \A p \in Procs :
        kind[p] \in {"Put", "Delete"} => curOp[p].Version.Seq > replayMaxSeq

\* C8 - sequence allocation is atomic: the Seqs one running Engine has
\* handed out are exactly 1, 2, 3, ... in allocation order, so no value is
\* issued twice, failed writes included, and the counter equals the last one.
C8_AtomicSeq ==
    /\ \A i \in DOMAIN issued : issued[i] = i
    /\ seq = Len(issued)
    /\ \A p, q \in Procs :
          (p # q /\ kind[p] \in {"Put", "Delete"} /\ kind[q] \in {"Put", "Delete"})
          => curOp[p].Version # curOp[q].Version

\* Two callers hold freshly stamped operations at the same time.
C8_Witness ==
    /\ pc[1] = "append" /\ pc[2] = "append"
    /\ curOp[1].Version.Seq = 2 /\ curOp[2].Version.Seq = 1

\* Operations whose call returned nil: delivered replica operations, and
\* local operations applied by a call that is no longer running.
Completed(k) ==
    DeliveredFor(k) \cup
    {o \in AppliedFor(k) : IsLocal(o) /\ \A p \in Procs : curOp[p] # o}

\* C9 - concurrent convergence: once all calls have returned, each key's
\* Record is the one built from the highest-Version operation among the
\* calls that returned nil, whatever the interleaving was.
C9_ConcurrentConvergence ==
    Quiescent =>
        \A k \in Keys :
            IF Completed(k) = {}
            THEN k \notin DOMAIN store
            ELSE /\ k \in DOMAIN store
                 /\ store[k] = RecordOf(MaxOp(Completed(k)))

\* All calls returned; for some key the log holds a newer operation before
\* an older one, and a local and a remote operation with the same Seq met.
C9_Witness ==
    /\ Quiescent
    /\ Len(wal) = 2
    /\ wal[1].Key = wal[2].Key
    /\ VLess(wal[2].Version, wal[1].Version)
    /\ wal[1].Version.Seq = wal[2].Version.Seq
    /\ IsLocal(wal[2])
    /\ store[wal[1].Key] = RecordOf(wal[1])

\* C10 - Version is a strict total order: exactly one of GreaterThan,
\* LessThan, Equal holds; GreaterThan compares Seq first and then NodeID
\* lexicographically; it is transitive; a.GreaterThan(b) iff b.LessThan(a).
C10_VersionTotalOrder ==
    cmp.done =>
        /\ Cardinality({x \in {"gt", "lt", "eq"} : cmp[x]}) = 1
        /\ cmp.gt = VLess(vb, va)
        /\ cmp.lt = VLess(va, vb)
        /\ cmp.eq = (va = vb)
        /\ ((cmp.gt /\ cmp.gtbc) => cmp.gtac)
        /\ cmp.gt = cmp.ltba

\* A chain a > b > c decided by the NodeID tie-break, b a proper prefix of a.
C10_Witness ==
    /\ cmp.done /\ cmp.gt /\ cmp.gtbc /\ cmp.gtac
    /\ va.Seq = vb.Seq
    /\ Len(vb.NodeID) < Len(va.NodeID) /\ Len(vb.NodeID) > 0
    /\ vc.Seq < vb.Seq /\ StringLess(vb.NodeID, vc.NodeID)

\* ------------------------------------------------------------------ C11
Min(a, b) == IF a < b THEN a ELSE b

PhysicalNodes(ents) == {ents[i].id : i \in DOMAIN ents}

\* C11: for every key hash and every n, GetReplicas returns exactly
\* min(n, number of distinct physical nodes) nodes (none when n <= 0 or the
\* ring is empty), pairwise distinct and all in the ring, the first being
\* GetPrimary of the key; and a call repeated on the unchanged ring returns
\* what the last call returned.
C11_ReplicaListShape ==
    /\ \A keyHash \in Hashes, n \in (-1)..MaxN :
          LET r == GetReplicas(entries, keyHash, n)
          IN /\ Len(r) = (IF n <= 0 \/ Len(entries) = 0 THEN 0
                          ELSE Min(n, Cardinality(PhysicalNodes(entries))))
             /\ \A i, j \in DOMAIN r : i # j => r[i] # r[j]
             /\ \A i \in DOMAIN r : r[i] \in PhysicalNodes(entries)
             /\ (Len(r) > 0 => r[1] = GetPrimary(entries, keyHash))
    /\ (rlast.op = "GetReplicas"
          => rlast.result = GetReplicas(entries, rlast.keyHash, rlast.n))

\* GetReplicas was asked for more nodes than the ring has, started in the
\* middle of the ring and skipped a second position of a node.
C11_Witness ==
    /\ rlast.op = "GetReplicas"
    /\ rlast.n = 3
    /\ Len(rlast.result) = 2
    /\ Len(entries) >= 3
    /\ SearchGE(entries, rlast.keyHash, 0, Len(entries)) \in 1..(Len(entries) - 1)

\* ------------------------------------------------------------------ C12
\* C12: a RemoveNode(X) step leaves the primary of every key whose primary
\* was a node other than X as it was.
C12_RebalanceBound ==
    [][rlast'.op = "RemoveNode"
         => \A keyHash \in Hashes :
               LET was == GetPrimary(entries, keyHash)
               IN (was # NoNode /\ was # rlast'.id)
                     => GetPrimary(entries', keyHash) = was]_vars

\* RemoveNode took a node out of a ring in which two other nodes keep
\* positions at different hashes.
C12_Witness ==
    /\ rlast.op = "RemoveNode"
    /\ rlast.n >= 1
    /\ Len(entries) >= 2
    /\ entries[1].id # entries[Len(entries)].id
    /\ entries[1].hash # entries[Len(entries)].hash

\* ------------------------------------------------------------------ C13
\* C13: a RemoveNode(id) step leaves exactly the entries of the other nodes,
\* in their order, changes nothing when id has no entry, and afterwards no
\* GetPrimary, GetReplicas or Nodes result contains id.
C13_RemoveNodeComplete ==
    [][rlast'.op = "RemoveNode"
         => LET id == rlast'.id
                Other(e) == e.id # id
            IN /\ entries' = SelectSeq(entries, Other)
               /\ (CountOf(entries, id) = 0 => entries' = entries)
               /\ CountOf(entries', id) = 0
               /\ \A keyHash \in Hashes :
                     /\ GetPrimary(entries', keyHash) # id
                     /\ \A n \in 0..MaxN :
                           id \notin Range(GetReplicas(entries', keyHash, n))
               /\ id \notin Range(RingNodesOf(entries'))]_vars

\* RemoveNode removed three positions of one node, more than one AddNode
\* gave it.
C13_Witness ==
    /\ rlast.op = "RemoveNode"
    /\ rlast.n >= 3
    /\ CountOf(entries, rlast.id) = 0

\* ------------------------------------------------------------------ C19
\* C19: every AddNode or RemoveNode step leaves the entry list in
\* non-decreasing hash order; AddNode(id, w) gives id exactly w more entries
\* (so w entries when id was absent) and every other node as many as before;
\* RemoveNode leaves every other node as many as before.
C19_RingSorted ==
    [][/\ IsSortedByHash(entries')
       /\ (rlast'.op = "AddNode"
             => \A id \in RingNodes :
                   CountOf(entries', id) =
                      CountOf(entries, id)
                        + (IF id = rlast'.id THEN rlast'.weight ELSE 0))
       /\ (rlast'.op = "RemoveNode"
             => \A id \in RingNodes \ {rlast'.id} :
                   CountOf(entries', id) = CountOf(entries, id))]_vars

\* An absent node was added with weight 2 into a ring that holds another
\* node, and two labels of different nodes collide.
C19_Witness ==
    /\ rlast.op = "AddNode"
    /\ rlast.n = 0
    /\ rlast.weight = 2
    /\ CountOf(entries, rlast.id) = 2
    /\ Len(entries) = 3
    /\ \E i \in 1..(Len(entries) - 1) :
          /\ entries[i].hash = entries[i + 1].hash
          /\ entries[i].id # entries[i + 1].id

\* ------------------------------------------------------------------ C14
\* C14: WriteTargets returns nothing when the key has no replicas
\* (replication factor zero, empty ring); under WritePrimaryOnly the first
\* replica alone if it is healthy and nothing otherwise; under WriteReplicate
\* the healthy replicas, in replica order, and nothing else.
C14_WriteTargets ==
    rlast.op = "WriteTargets"
       => LET replicas == GetReplicas(entries, rlast.keyHash, scfg.ReplicationFactor)
              Healthy(node) == node \in rlast.healthy
          IN /\ (scfg.ReplicationFactor = 0 \/ Len(entries) = 0
                   => rlast.result = <<>>)
             /\ (scfg.WriteConsistency = WritePrimaryOnly /\ replicas # <<>>
                   => rlast.result = IF Healthy(replicas[1]) THEN <<replicas[1]>>
                                     ELSE <<>>)
             /\ (scfg.WriteConsistency = WriteReplicate
                   => rlast.result = SelectSeq(replicas, Healthy))

\* Replication factor 3, WriteReplicate, one of the three replicas
\* unhealthy: the two healthy ones are returned.
C14_Witness ==
    /\ rlast.op = "WriteTargets"
    /\ scfg.ReplicationFactor = 3
    /\ scfg.WriteConsistency = WriteReplicate
    /\ Len(GetReplicas(entries, rlast.keyHash, 3)) = 3
    /\ Cardinality(rlast.healthy) = 2
    /\ Len(rlast.result) = 2

\* ------------------------------------------------------------------ C15
\* C15: ReadTargets returns nothing when the key has no replicas; under
\* ReadPrimary the first replica alone iff it is healthy; under
\* ReadAnyReplica at most one node, the healthy replica of lowest index,
\* and nothing iff no replica is healthy.
C15_ReadTargets ==
    rlast.op = "ReadTargets"
       => LET replicas == GetReplicas(entries, rlast.keyHash, scfg.ReplicationFactor)
              H == rlast.healthy
              r == rlast.result
          IN /\ (replicas = <<>> => r = <<>>)
             /\ (scfg.ReadConsistency = ReadPrimary /\ replicas # <<>>
                   => r = IF replicas[1] \in H THEN <<replicas[1]>> ELSE <<>>)
             /\ (scfg.ReadConsistency = ReadAnyReplica
                   => /\ Len(r) <= 1
                      /\ (r = <<>> <=> \A i \in DOMAIN replicas : replicas[i] \notin H)
                      /\ (r # <<>>
                            => \E i \in DOMAIN replicas :
                                  /\ replicas[i] = r[1]
                                  /\ r[1] \in H
                                  /\ \A j \in 1..(i - 1) : replicas[j] \notin H))

\* ReadAnyReplica passed over an unhealthy first replica and returned a
\* later healthy one while a third healthy replica exists.
C15_Witness ==
    /\ rlast.op = "ReadTargets"
    /\ scfg.ReadConsistency = ReadAnyReplica
    /\ LET replicas == GetReplicas(entries, rlast.keyHash, scfg.ReplicationFactor)
       IN /\ Len(replicas) = 3
          /\ replicas[1] \notin rlast.healthy
          /\ replicas[2] \in rlast.healthy
          /\ replicas[3] \in rlast.healthy
          /\ rlast.result = <<replicas[2]>>


\* C16 - durability precedes visibility on every write path: each Record in
\* the Store was produced by an operation that is in the WAL, and with
\* SyncWrites that operation is covered by a successful WAL.Sync.
C16_DurabilityPrecedesVisibility ==
    \A k \in DOMAIN store :
        \E i \in DOMAIN wal :
            /\ RecordOf(wal[i]) = store[k]
            /\ (cfg.SyncWrites => i <= syncedLen)

C18_NoWalUnderLock ==
    \A p \in Procs :
        pc[p] \in {"append", "sync", "ar_append"} => mu # p

\* C20 - an operation of unrecognized type never enters the durable stream:
\* the WAL holds only Put and Delete operations, so NewEngine can replay it.
C20_UnknownNeverLogged ==
    \A i \in DOMAIN wal : ~Panics(wal[i])

\* ------------------------------------------------------------------ C21
HoldsRW(mutex, p) == p \in mutex.readers \/ mutex.w = p

\* A goroutine that goes for the Engine lock holds neither the Store lock
\* nor the WAL lock.
LockOrder ==
    \A p \in LockProcs :
        NextLockOp(p) \in {"e.RLock", "e.Lock", "e.Wait"}
           => ~HoldsRW(smu, p) /\ wmu # p

\* C21: the Engine lock is never acquired by a goroutine that holds the
\* Store lock or the WAL lock, and every Get, Put, Delete, ApplyReplica,
\* Import and Export call that has begun eventually returns.
C21_DeadlockFreedom ==
    /\ []LockOrder
    /\ \A p \in LockProcs : (lcall[p] # NoLockCall) ~> (lcall[p] = NoLockCall)

\* An ApplyReplica holds the Engine lock and waits for the WAL lock, which
\* a Put holds.
C21_Witness ==
    \E p, q \in LockProcs :
        /\ p # q
        /\ emu.w = p
        /\ lcall[p].kind = "ApplyReplica"
        /\ NextLockOp(p) = "w.Lock"
        /\ wmu = q
        /\ lcall[q].kind = "Put"

====
